---- MODULE Spec2Model ----
(***************************************************************************)
(* Route Sniffer: the route-generation server action                       *)
(* (generateCustomRouteAction), the pipeline it starts, the Places         *)
(* utilities (findNearbyPOIs, findAllDogWalkingPOIs), the Directions       *)
(* utility (getWalkingDirections), the recommendations page                *)
(* (RecommendationsClient), the list of walks (WalksList, WalkCard,        *)
(* deleteWalkAction) and the proxy in front of the application.            *)
(*                                                                         *)
(* Spec            the server action and the four-stage pipeline           *)
(* SpecPOI         findAllDogWalkingPOIs with its three concurrent searches*)
(* SpecNearby      one findNearbyPOIs and its ranking                      *)
(* SpecDirections  getWalkingDirections                                    *)
(* SpecClient      the recommendations page with the server action behind  *)
(* SpecLive        Spec with every step but the Geocoder's answer fair     *)
(* SpecWalks       WalksList with deleteWalkAction behind                  *)
(* SpecCard        one WalkCard rendered on its own                        *)
(* SpecProxy       the proxy and a browser that follows its redirects      *)
(***************************************************************************)
EXTENDS Integers, Sequences, FiniteSets, TLC

\* ------------------------------------------------------------------ bounds
\* longest location text that is enumerated
MaxLocLen == 3
\* largest requested distance (km) that is enumerated; the smallest is -1
MaxDistance == 12

VARIABLES
    envFlag,      \* process.env.AI_RECOMMENDATIONS_ENABLED
    sessionUser,  \* what supabase.auth.getUser() answers for this session
    location,     \* argument `location` of the running action
    distance,     \* argument `preferences.distance` of the running action
    circular,     \* argument `preferences.circular` of the running action
    proposal,     \* what the selector's oracle proposed to the running action
    pc,           \* where the running action is suspended
    calls,        \* the services called so far by the running action, in order
    returns,      \* the pipeline stages that have settled, in order, with their results
    outcome,      \* what the action returned or threw
    apiKey,       \* whether process.env.GOOGLE_MAPS_API_KEY is set
    radius,       \* argument `radius` of the running findAllDogWalkingPOIs
    search,       \* the promise of each category search, with its settled value
    requests,     \* the categories whose request was sent to the place-search service
    settleOrder,  \* the categories whose search settled before the call ended, in that order
    poiPc,        \* where the running findAllDogWalkingPOIs is suspended
    poiOutcome,   \* what findAllDogWalkingPOIs returned or threw
    nearbyPc,     \* where a findNearbyPOIs called on its own is suspended
    nearbySent,   \* the number of requests that call sent to the place-search service
    nearbyResp,   \* what the place-search service answered to that call
    nearbyOutcome, \* what that call returned or threw
    dirWaypoints, \* argument `waypoints` of the running getWalkingDirections (their number)
    dirPc,        \* where the running getWalkingDirections is suspended
    dirSent,      \* the number of requests it sent to the routing service
    dirResp,      \* what the routing service answered
    dirOutcome,   \* what getWalkingDirections returned or threw
    customRoute,  \* RecommendationsClient state `customRoute`: the displayed route
    lastFormData, \* RecommendationsClient state `lastFormData`
    isSaved,      \* RecommendationsClient state `isSaved`
    inflight,     \* the form data of the transition that is pending (isPending)
    toasts,       \* the toasts of the generation attempts shown so far, in order
    clicked,      \* the control that started the latest attempt: the form or Show Me Another
    routeNo,      \* which route object `customRoute` holds: the number of the attempt that returned it
    isWiggling,   \* RecommendationsClient state `isWiggling`
    isSaving,     \* RecommendationsClient state `isSaving`
    showEmojiRain, \* RecommendationsClient state `showEmojiRain`
    wiggleTimers, \* the pending timers of handleSaveWalk, each with the route its callback closes over
    savesInFlight, \* the routes of the calls of saveGeneratedWalkAction that have not settled
    saveCalls,    \* the calls of saveGeneratedWalkAction so far: the route passed, the route held then
    savedRoutes,  \* the routes saveGeneratedWalkAction has stored
    saveToasts,   \* the toasts of handleSaveWalk shown so far, in order
    dbWalks,      \* the ids of the rows of the `walks` table
    initialWalks, \* WalksList prop `initialWalks`: the list the page rendered last
    removed,      \* the walk ids filtered out by the pending optimistic updates
    deletes,      \* for each walk, how far the pending handleDelete(walk.id) has got
    walkToasts,   \* the toasts of WalksList shown so far, in order
    cardWalk,     \* WalkCard prop `walk` (its id) of a card rendered on its own
    cardOnDelete, \* whether that card was given the prop `onDelete`
    cardPending,  \* that card's `isPending`: its transition has not ended
    confirms,     \* the answers given to that card's confirm dialogs, in order
    onDeleteCalls, \* the arguments of the calls of that card's onDelete, in order
    session,      \* what supabase.auth.getUser() does for the browser's cookies now
    request,      \* the path of the request the browser has sent last
    proxyPc,      \* where the handling of that request is suspended
    answers,      \* what the auth service did in the proxy runs of this navigation, in order
    response,     \* the response to that request
    hops          \* the number of redirects the browser has followed in this navigation

actionVars == <<envFlag, sessionUser, location, distance, circular, proposal, pc, calls, returns, outcome>>

poiVars == <<radius, search, requests, settleOrder, poiPc, poiOutcome>>

nearbyVars == <<nearbyPc, nearbySent, nearbyResp, nearbyOutcome>>

\* the variables that the server action, findAllDogWalkingPOIs, a single
\* findNearbyPOIs, getWalkingDirections and the recommendations page leave
\* alone
dirVars == <<dirWaypoints, dirPc, dirSent, dirResp, dirOutcome>>

saveVars ==
    <<isWiggling, isSaving, showEmojiRain, wiggleTimers, savesInFlight, saveCalls, savedRoutes,
      saveToasts>>

clientVars == <<customRoute, lastFormData, isSaved, inflight, toasts, clicked, routeNo, saveVars>>

walkVars == <<dbWalks, initialWalks, removed, deletes, walkToasts>>

\* the variables of the other pages and of the proxy
cardVars == <<cardWalk, cardOnDelete, cardPending, confirms, onDeleteCalls>>

proxyVars == <<session, request, proxyPc, answers, response, hops>>

siteVars == <<walkVars, cardVars, proxyVars>>

outsideAction == <<poiVars, nearbyVars, dirVars, clientVars, siteVars>>

outsidePOI == <<actionVars, nearbyVars, dirVars, clientVars, siteVars>>

outsideNearby == <<actionVars, poiVars, dirVars, clientVars, siteVars>>

outsideDirections == <<actionVars, poiVars, nearbyVars, clientVars, siteVars>>

outsideClient == <<poiVars, nearbyVars, dirVars, siteVars>>

outsideWalks == <<actionVars, apiKey, poiVars, nearbyVars, dirVars, clientVars, cardVars, proxyVars>>

outsideCard == <<actionVars, apiKey, poiVars, nearbyVars, dirVars, clientVars, walkVars, proxyVars>>

outsideProxy == <<actionVars, apiKey, poiVars, nearbyVars, dirVars, clientVars, walkVars, cardVars>>

vars == <<actionVars, apiKey, poiVars, nearbyVars, dirVars, clientVars, siteVars>>

\* ------------------------------------------------------------ input values
Chars == {" ", "a"}

Texts == UNION {[1..n -> Chars] : n \in 0..MaxLocLen}

\* a location argument: a string, or a missing value (undefined / null)
NoLocation == [missing |-> TRUE, text |-> <<>>]

Locations == {NoLocation} \cup {[missing |-> FALSE, text |-> t] : t \in Texts}

Distances == (0 - 1)..MaxDistance

FlagValues == {"true", "false", "1", "unset"}

NoUser == "none"

Users == {NoUser, "u1"}

\* ------------------------------------------------------- String.prototype.trim
RECURSIVE TrimLeft(_)
TrimLeft(s) ==
    IF s # <<>> /\ Head(s) = " " THEN TrimLeft(Tail(s)) ELSE s

RECURSIVE TrimRight(_)
TrimRight(s) ==
    IF s # <<>> /\ s[Len(s)] = " " THEN TrimRight(SubSeq(s, 1, Len(s) - 1)) ELSE s

\* a trim that strips leading whitespace only
TrimLeadingOnly(s) == TrimLeft(s)

Trim(s) == TrimRight(TrimLeft(s))

\* ----------------------------------------------------------- error messages
ErrUnavailable == "AI route generation is currently unavailable. Please try again later."
ErrNotLoggedIn == "You must be logged in to generate custom routes."
ErrEnterLocation == "Please enter a location."
ErrValidLocation == "Please enter a valid location."
ErrDistanceRange == "Distance must be between 1 and 10 kilometers."

InvalidInputErrors == {ErrEnterLocation, ErrValidLocation, ErrDistanceRange}

NoOutcome == [kind |-> "none", value |-> "none"]

Thrown(msg) == [kind |-> "error", value |-> msg]

Returned(v) == [kind |-> "route", value |-> v]

\* -------------------------------------------- generateCustomRouteAction checks
MinDistanceKm == 1
MaxDistanceKm == 10
MinLocationLen == 2

\* a flag test that treats only the literal 'false' as disabled
FlagDisabledLoose(v) == v = "false"

\* process.env.AI_RECOMMENDATIONS_ENABLED !== 'true'
FlagDisabled(v) == v # "true"

\* a user test that lets every session through
UserAbsentNever(u) == FALSE

\* !user
UserAbsent(u) == u = NoUser

\* the two location checks: "none" when both pass
LocationError(loc) ==
    IF loc.missing \/ loc.text = <<>> \/ Len(Trim(loc.text)) = 0
    THEN ErrEnterLocation
    ELSE IF Len(Trim(loc.text)) < MinLocationLen
         THEN ErrValidLocation
         ELSE "none"

\* a range test that excludes both bounds
DistanceOutOfRangeStrict(d) == d <= MinDistanceKm \/ d >= MaxDistanceKm

\* preferences.distance < 1 || preferences.distance > 10
DistanceOutOfRange(d) == d < MinDistanceKm \/ d > MaxDistanceKm

\* ------------------------------------------------------------ geocodeLocation
GeocodeStatuses == {"OK", "ZERO_RESULTS", "REQUEST_DENIED", "INVALID_REQUEST", "OVER_QUERY_LIMIT"}

\* what the location-resolution service can answer to one request: fetch
\* rejecting, or an HTTP response with a status field and a list of results
GeocodeResponses ==
    {[fetch |-> "networkError", httpOk |-> FALSE, status |-> "OK", results |-> 0]}
    \cup [fetch : {"response"}, httpOk : BOOLEAN, status : GeocodeStatuses, results : {0, 1}]

ErrNoApiKey == "GOOGLE_MAPS_API_KEY environment variable is not set"
ErrGeoEmpty == "Location cannot be empty"
ErrGeoNetwork == "fetch failed"
ErrGeoHttp == "Geocoding API error"
ErrGeoNotFound == "Location not found. Please try a more specific address or place name."
ErrGeoDenied == "Geocoding API access denied. Please check API key permissions."
ErrGeoInvalid == "Invalid location format. Please provide a valid address or place name."
ErrGeoFailed == "Failed to geocode location"

Ok(v) == [ok |-> TRUE, value |-> v]

Err(msg) == [ok |-> FALSE, value |-> msg]

\* the checks made before the request is sent: "none" when they pass
GeocodePrecheck(key, text) ==
    IF ~key THEN ErrNoApiKey
    ELSE IF text = <<>> \/ Len(Trim(text)) = 0 THEN ErrGeoEmpty
    ELSE "none"

\* the result of geocodeLocation once the service has answered resp
GeocodeResult(resp) ==
    IF resp.fetch = "networkError" THEN Err(ErrGeoNetwork)
    ELSE IF ~resp.httpOk THEN Err(ErrGeoHttp)
    ELSE IF resp.status = "ZERO_RESULTS" THEN Err(ErrGeoNotFound)
    ELSE IF resp.status = "REQUEST_DENIED" THEN Err(ErrGeoDenied)
    ELSE IF resp.status = "INVALID_REQUEST" THEN Err(ErrGeoInvalid)
    ELSE IF resp.status # "OK" \/ resp.results = 0 THEN Err(ErrGeoFailed)
    ELSE Ok("GeocodeResult")

\* every way geocodeLocation(text) can settle
GeocodeOutcomes(key, text) ==
    IF GeocodePrecheck(key, text) # "none"
    THEN {Err(GeocodePrecheck(key, text))}
    ELSE {GeocodeResult(resp) : resp \in GeocodeResponses}

\* ------------------------------------------------------- the pipeline stages
Stages == <<"geocoder", "poiAggregator", "waypointSelector", "routeCalculator">>

StageNames == {Stages[i] : i \in 1..Len(Stages)}

\* the failures of the stages other than the Geocoder
StageFailures ==
    [poiAggregator |-> {"PlaceSearchFailure", "InvalidInput"},
     waypointSelector |-> {"MalformedSelectorOutput"},
     routeCalculator |-> {"InsufficientWaypoints", "NoRouteFound", "WaypointNotLocated",
                          "AccessDenied", "InvalidRequest"}]

StageIndex(st) == CHOOSE i \in 1..Len(Stages) : Stages[i] = st

\* every way stage st can settle for the running request
StageOutcomes(st, key, loc) ==
    IF st = "geocoder"
    THEN GeocodeOutcomes(key, Trim(loc.text))
    ELSE {Ok(st)} \cup {Err(e) : e \in StageFailures[st]}

\* a pipeline that goes on to the next stage whatever the previous one returned
AfterStageNoAbort(st, res) ==
    IF StageIndex(st) < Len(Stages) THEN Stages[StageIndex(st) + 1]
    ELSE IF ~res.ok THEN "throw"
    ELSE "assemble"

\* what the pipeline does when stage st has settled with res: the name of the
\* next stage to call, "assemble" after the last one, "throw" on a failure
AfterStage(st, res) ==
    IF ~res.ok THEN "throw"
    ELSE IF StageIndex(st) < Len(Stages) THEN Stages[StageIndex(st) + 1]
    ELSE "assemble"

\* ------------------------------------------------------ the Waypoint Selector
\* largest number of waypoints that is enumerated
MaxWaypoints == 3

\* a latitude or longitude that is absent or not a valid number
NoCoord == 0 - 1

\* the waypoints an oracle can propose: at one of two points, or without a
\* valid latitude, or without a valid longitude
ProposedWaypoints ==
    {[lat |-> 1, lng |-> 1], [lat |-> 2, lng |-> 1], [lat |-> NoCoord, lng |-> 1],
     [lat |-> 1, lng |-> NoCoord]}

\* what the oracle can answer: text that does not parse as the expected
\* structure, or a structure with a list of waypoints
Proposals ==
    {[parses |-> FALSE, waypoints |-> <<>>]}
    \cup {[parses |-> TRUE, waypoints |-> w] :
             w \in UNION {[1..n -> ProposedWaypoints] : n \in 0..MaxWaypoints}}

NoProposal == [parses |-> FALSE, waypoints |-> <<>>]

ErrMalformed == "MalformedSelectorOutput"

\* a validation that does not look at the start and end of a circular route
SelectorResultAnyEnds(p, circ) ==
    IF ~p.parses THEN Err(ErrMalformed)
    ELSE IF \E i \in 1..Len(p.waypoints) :
                p.waypoints[i].lat = NoCoord \/ p.waypoints[i].lng = NoCoord
    THEN Err(ErrMalformed)
    ELSE IF Len(p.waypoints) < 2 THEN Err(ErrMalformed)
    ELSE Ok("waypointSelector")

\* the Waypoint Selector's validation of the oracle's proposal p for a request
\* whose `circular` preference is circ
SelectorResult(p, circ) ==
    IF ~p.parses THEN Err(ErrMalformed)
    ELSE IF \E i \in 1..Len(p.waypoints) :
                p.waypoints[i].lat = NoCoord \/ p.waypoints[i].lng = NoCoord
    THEN Err(ErrMalformed)
    ELSE IF Len(p.waypoints) < 2 THEN Err(ErrMalformed)
    ELSE IF circ /\ p.waypoints[1] # p.waypoints[Len(p.waypoints)] THEN Err(ErrMalformed)
    ELSE Ok("waypointSelector")

\* ------------------------------------------------------------------ actions
InitAction ==
    /\ envFlag \in FlagValues
    /\ sessionUser \in Users
    /\ apiKey \in BOOLEAN
    /\ location = NoLocation
    /\ distance = 0
    /\ circular = FALSE
    /\ proposal = NoProposal
    /\ pc = "idle"
    /\ calls = <<>>
    /\ returns = <<>>
    /\ outcome = NoOutcome

\* generateCustomRouteAction(loc, {distance: d, circular: circ}) up to its
\* first await
Invoke(loc, d, circ) ==
    /\ pc = "idle"
    /\ location' = loc
    /\ distance' = d
    /\ circular' = circ
    /\ IF FlagDisabled(envFlag)
       THEN /\ pc' = "done"
            /\ outcome' = Thrown(ErrUnavailable)
            /\ calls' = calls
       ELSE /\ pc' = "awaitAuth"
            /\ outcome' = outcome
            /\ calls' = Append(calls, "auth")
    /\ UNCHANGED <<envFlag, sessionUser, apiKey, proposal, returns, outsideAction>>

\* supabase.auth.getUser() has answered: the checks up to the call of
\* generateCustomRoute
AuthReturns ==
    /\ pc = "awaitAuth"
    /\ IF UserAbsent(sessionUser)
       THEN /\ pc' = "done"
            /\ outcome' = Thrown(ErrNotLoggedIn)
            /\ calls' = calls
       ELSE IF LocationError(location) # "none"
       THEN /\ pc' = "done"
            /\ outcome' = Thrown(LocationError(location))
            /\ calls' = calls
       ELSE IF DistanceOutOfRange(distance)
       THEN /\ pc' = "done"
            /\ outcome' = Thrown(ErrDistanceRange)
            /\ calls' = calls
       ELSE /\ pc' = "pipeline"
            /\ outcome' = outcome
            /\ calls' = Append(calls, "generateCustomRoute")
    /\ UNCHANGED <<envFlag, sessionUser, apiKey, location, distance, circular, proposal, returns, outsideAction>>

\* generateCustomRoute begins: it calls its first stage
PipelineStart ==
    /\ pc = "pipeline"
    /\ pc' = Stages[1]
    /\ calls' = Append(calls, Stages[1])
    /\ UNCHANGED <<envFlag, sessionUser, apiKey, location, distance, circular, proposal, returns, outcome, outsideAction>>

\* the stage the pipeline awaits has settled with res; a failure propagates
\* through generateCustomRouteAction's catch, which rethrows it unchanged
StageSettles(st, res) ==
    /\ pc = st
    /\ returns' = Append(returns, [stage |-> st, res |-> res])
    /\ IF AfterStage(st, res) = "throw"
       THEN /\ pc' = "done"
            /\ outcome' = Thrown(res.value)
            /\ calls' = calls
       ELSE IF AfterStage(st, res) = "assemble"
       THEN /\ pc' = "done"
            /\ outcome' = Returned("RouteRecommendation")
            /\ calls' = calls
       ELSE /\ pc' = AfterStage(st, res)
            /\ outcome' = outcome
            /\ calls' = Append(calls, AfterStage(st, res))
    /\ UNCHANGED <<envFlag, sessionUser, apiKey, location, distance, circular, outsideAction>>

\* a stage other than the Waypoint Selector has settled with res
StageReturns(st, res) ==
    /\ st # "waypointSelector"
    /\ StageSettles(st, res)
    /\ proposal' = proposal

\* the selector's oracle has answered: the Waypoint Selector validates the
\* proposal and settles
SelectorReturns ==
    /\ pc = "waypointSelector"
    /\ \E p \in Proposals :
           /\ StageSettles("waypointSelector", SelectorResult(p, circular))
           /\ proposal' = p

Next ==
    \/ \E loc \in Locations, d \in Distances, circ \in BOOLEAN : Invoke(loc, d, circ)
    \/ AuthReturns
    \/ PipelineStart
    \/ \E st \in StageNames : \E res \in StageOutcomes(st, apiKey, location) : StageReturns(st, res)
    \/ SelectorReturns

\* ============================================================== places.ts
\* largest place id that is enumerated
MaxPlaceId == 2
\* longest result list of one category response that is enumerated
MaxCategoryResults == 1

\* Google Places API max radius, in meters
PlacesMaxRadius == 50000

\* a result (and a Place) without a rating field
NoRating == 0 - 1

\* ratings are in tenths of a star
RatingGap == 5

\* the arguments `radius` that are enumerated
Radii == {2000, PlacesMaxRadius, PlacesMaxRadius + 1}

\* the arguments `radius` of findAllDogWalkingPOIs that are enumerated: the
\* largest that is accepted and the first that is not
AggregateRadii == {PlacesMaxRadius, PlacesMaxRadius + 1}

\* one entry of data.results, as far as the code reads it: place_id, rating
\* and the great-circle distance of its geometry from the search origin
RawResults == [placeId : 1..MaxPlaceId, rating : {40, 48}, dist : {100}]

ResultLists == UNION {[1..n -> RawResults] : n \in 0..MaxCategoryResults}

PlacesStatuses == {"OK", "ZERO_RESULTS", "REQUEST_DENIED", "INVALID_REQUEST", "OVER_QUERY_LIMIT"}

\* a response of the place-search service that the code turns into a failure
\* or into an empty list without reading data.results
PlainResponses ==
    {[fetch |-> "networkError", httpOk |-> FALSE, status |-> "OK", hasResults |-> FALSE, results |-> <<>>],
     [fetch |-> "response", httpOk |-> FALSE, status |-> "OK", hasResults |-> FALSE, results |-> <<>>],
     [fetch |-> "response", httpOk |-> TRUE, status |-> "OK", hasResults |-> FALSE, results |-> <<>>]}
    \cup {[fetch |-> "response", httpOk |-> TRUE, status |-> st, hasResults |-> FALSE, results |-> <<>>] :
             st \in PlacesStatuses \ {"OK"}}

\* what the place-search service can answer to one request
PlacesResponses ==
    PlainResponses
    \cup {[fetch |-> "response", httpOk |-> TRUE, status |-> "OK", hasResults |-> TRUE, results |-> l] :
             l \in ResultLists}

ErrRadius == "Radius cannot exceed 50,000 meters (50km)"
ErrPlacesNetwork == "fetch failed"
ErrPlacesHttp == "Places API error"
ErrPlacesDenied == "Places API access denied. Please check API key permissions."
ErrPlacesInvalid == "Invalid search parameters."
ErrPlacesFailed == "Failed to search places"

\* ---------------------------------------------------- the ranking comparator
\* `a.rating && b.rating`: a rating that is missing or 0 is falsy
Rated(p) == p.rating # NoRating /\ p.rating # 0

Sign(n) == IF n < 0 THEN 0 - 1 ELSE IF n > 0 THEN 1 ELSE 0

Abs(n) == IF n < 0 THEN 0 - n ELSE n

\* `p.distanceFromStart || Infinity`: a distance of 0 counts as Infinity
Far(p) == p.distanceFromStart = 0

\* one-decimal ratings (in tenths) that are exactly 0.5 apart and whose
\* difference as IEEE doubles is above 0.5 (4.4 - 3.9 = 0.5000000000000004)
RoundedAboveHalf == {<<11, 6>>, <<22, 17>>, <<44, 39>>}

\* `Math.abs(ratingDiff) > 0.5` on the doubles of two one-decimal ratings
RatingsApart(x, y) ==
    \/ Abs(y - x) > RatingGap
    \/ <<x, y>> \in RoundedAboveHalf
    \/ <<y, x>> \in RoundedAboveHalf

\* the sign of the comparator's value; NaN (Infinity - Infinity) is taken as 0
\* by Array.prototype.sort
ComparePlaces(a, b) ==
    IF Rated(a) /\ Rated(b) /\ RatingsApart(a.rating, b.rating)
    THEN Sign(b.rating - a.rating)
    ELSE IF Far(a) /\ Far(b) THEN 0
    ELSE IF Far(a) THEN 1
    ELSE IF Far(b) THEN 0 - 1
    ELSE Sign(a.distanceFromStart - b.distanceFromStart)

\* ------------------------------------ Array.prototype.sort for short arrays
\* (a single run: count the initial run, reverse it when it is descending,
\* then insert the remaining elements by binary insertion)
Reverse(s) == [i \in 1..Len(s) |-> s[Len(s) + 1 - i]]

\* the last index of the run that starts at 1; idx is the next index to test
RECURSIVE RunEnd(_, _, _)
RunEnd(s, idx, desc) ==
    IF idx > Len(s) THEN Len(s)
    ELSE IF desc /\ ComparePlaces(s[idx], s[idx - 1]) >= 0 THEN idx - 1
    ELSE IF ~desc /\ ComparePlaces(s[idx], s[idx - 1]) < 0 THEN idx - 1
    ELSE RunEnd(s, idx + 1, desc)

\* the insertion point of pivot in s[left+1 .. right], by binary search
RECURSIVE InsertionPoint(_, _, _, _)
InsertionPoint(s, pivot, left, right) ==
    IF left >= right THEN left
    ELSE LET mid == left + ((right - left) \div 2)
         IN IF ComparePlaces(pivot, s[mid + 1]) < 0
            THEN InsertionPoint(s, pivot, left, mid)
            ELSE InsertionPoint(s, pivot, mid + 1, right)

\* s with the element at index start moved to its insertion point in s[1..start-1]
InsertAt(s, start) ==
    LET at == InsertionPoint(s, s[start], 0, start - 1)
    IN SubSeq(s, 1, at) \o <<s[start]>> \o SubSeq(s, at + 1, start - 1)
       \o SubSeq(s, start + 1, Len(s))

RECURSIVE BinaryInsertionSort(_, _)
BinaryInsertionSort(s, start) ==
    IF start > Len(s) THEN s ELSE BinaryInsertionSort(InsertAt(s, start), start + 1)

SortPlaces(s) ==
    IF Len(s) < 2 THEN s
    ELSE LET desc == ComparePlaces(s[2], s[1]) < 0
             run == RunEnd(s, 3, desc)
             made == IF desc
                     THEN Reverse(SubSeq(s, 1, run)) \o SubSeq(s, run + 1, Len(s))
                     ELSE s
         IN BinaryInsertionSort(made, run + 1)

\* ------------------------------------------------------------ findNearbyPOIs
\* an upstream result as a Place
ToPlace(r) == [placeId |-> r.placeId, rating |-> r.rating, distanceFromStart |-> r.dist]

\* a radius test that also refuses the maximum itself
PlacesPrecheckExclusive(key, r) ==
    IF ~key THEN ErrNoApiKey
    ELSE IF r >= PlacesMaxRadius THEN ErrRadius
    ELSE "none"

\* the checks made before the request is sent: "none" when they pass
PlacesPrecheck(key, r) ==
    IF ~key THEN ErrNoApiKey
    ELSE IF r > PlacesMaxRadius THEN ErrRadius
    ELSE "none"

\* a search that has no special case for ZERO_RESULTS
FindNearbyResultNoZero(resp) ==
    IF resp.fetch = "networkError" THEN Err(ErrPlacesNetwork)
    ELSE IF ~resp.httpOk THEN Err(ErrPlacesHttp)
    ELSE IF resp.status = "REQUEST_DENIED" THEN Err(ErrPlacesDenied)
    ELSE IF resp.status = "INVALID_REQUEST" THEN Err(ErrPlacesInvalid)
    ELSE IF resp.status # "OK" \/ ~resp.hasResults THEN Err(ErrPlacesFailed)
    ELSE Ok(SortPlaces([i \in 1..Len(resp.results) |-> ToPlace(resp.results[i])]))

\* the result of findNearbyPOIs once the service has answered resp
FindNearbyResult(resp) ==
    IF resp.fetch = "networkError" THEN Err(ErrPlacesNetwork)
    ELSE IF ~resp.httpOk THEN Err(ErrPlacesHttp)
    ELSE IF resp.status = "ZERO_RESULTS" THEN Ok(<<>>)
    ELSE IF resp.status = "REQUEST_DENIED" THEN Err(ErrPlacesDenied)
    ELSE IF resp.status = "INVALID_REQUEST" THEN Err(ErrPlacesInvalid)
    ELSE IF resp.status # "OK" \/ ~resp.hasResults THEN Err(ErrPlacesFailed)
    ELSE Ok(SortPlaces([i \in 1..Len(resp.results) |-> ToPlace(resp.results[i])]))

\* ------------------------------------------------------ findAllDogWalkingPOIs
\* the three searches, in the order of the array given to Promise.all
Categories == <<"parks", "cafes", "dogParks">>

CategoryNames == {Categories[i] : i \in 1..Len(Categories)}

\* the index of key k in the entry list m, 0 when it is absent
KeyIndex(m, k) ==
    IF \E i \in 1..Len(m) : m[i].placeId = k
    THEN CHOOSE i \in 1..Len(m) : m[i].placeId = k
    ELSE 0

\* a Map.set that leaves the entry of an existing key as it is
MapSetKeepFirst(m, p) ==
    IF KeyIndex(m, p.placeId) = 0 THEN Append(m, p) ELSE m

\* Map.set(p.placeId, p) on the entries m (insertion order): an existing key
\* keeps its position and takes the new value
MapSet(m, p) ==
    IF KeyIndex(m, p.placeId) = 0
    THEN Append(m, p)
    ELSE [m EXCEPT ![KeyIndex(m, p.placeId)] = p]

\* new Map(entries): the entries are set one after the other
RECURSIVE NewMap(_, _)
NewMap(m, entries) ==
    IF entries = <<>> THEN m ELSE NewMap(MapSet(m, Head(entries)), Tail(entries))

\* a merge that only concatenates
UniquePlacesNoDedup(allPlaces) == allPlaces

\* Array.from(new Map(allPlaces.map((p) => [p.placeId, p])).values())
UniquePlaces(allPlaces) == NewMap(<<>>, allPlaces)

\* the value findAllDogWalkingPOIs returns for the three lists
Combine(parks, cafes, dogParks) ==
    [parks |-> parks, cafes |-> cafes, dogParks |-> dogParks,
     all |-> UniquePlaces(parks \o cafes \o dogParks)]

\* no response (yet)
NoResponse ==
    [fetch |-> "none", httpOk |-> FALSE, status |-> "none", hasResults |-> FALSE, results |-> <<>>]

NotStarted == [state |-> "notStarted", res |-> Ok(<<>>), resp |-> NoResponse]

Pending == [state |-> "pending", res |-> Ok(<<>>), resp |-> NoResponse]

\* a search promise settled with res after the service answered resp
Settled(res, resp) ==
    [state |-> IF res.ok THEN "fulfilled" ELSE "rejected", res |-> res, resp |-> resp]

\* Promise.all over the three searches: rejected as soon as one of them is
\* rejected, fulfilled once all of them are fulfilled
Join(srch) ==
    IF \E c \in CategoryNames : srch[c].state = "rejected" THEN "reject"
    ELSE IF \A c \in CategoryNames : srch[c].state = "fulfilled" THEN "resolve"
    ELSE "wait"

InitPOI ==
    /\ radius = 0
    /\ search = [c \in CategoryNames |-> NotStarted]
    /\ requests = <<>>
    /\ settleOrder = <<>>
    /\ poiPc = "idle"
    /\ poiOutcome = NoOutcome

\* findAllDogWalkingPOIs(location, r) up to its await: the three searches are
\* started in order; each one runs its checks and sends its request. A search
\* whose checks fail is rejected at once, and so is the awaited Promise.all
\* (with the rejection of the first search of the array).
CallFindAll(r) ==
    /\ poiPc = "idle"
    /\ radius' = r
    /\ IF PlacesPrecheck(apiKey, r) # "none"
       THEN /\ search' = [c \in CategoryNames |-> Settled(Err(PlacesPrecheck(apiKey, r)), NoResponse)]
            /\ requests' = requests
            /\ settleOrder' = <<>>
            /\ poiPc' = "done"
            /\ poiOutcome' = Thrown(PlacesPrecheck(apiKey, r))
       ELSE /\ search' = [c \in CategoryNames |-> Pending]
            /\ requests' = requests \o Categories
            /\ settleOrder' = <<>>
            /\ poiPc' = "awaiting"
            /\ poiOutcome' = poiOutcome
    /\ UNCHANGED <<apiKey, outsidePOI>>

\* an await that hands out the results in the order in which the searches
\* settled
ResultsAsSettled(srch, order) == [i \in 1..Len(order) |-> srch[order[i]].res.value]

\* const [parks, cafes, dogParks] = await Promise.all([...]): the results in
\* the order of the array of promises, whatever the order of settling
ResultsAsCalled(srch, order) == [i \in 1..Len(Categories) |-> srch[Categories[i]].res.value]

\* the place-search service answers the request of category c with resp: the
\* search settles, and with it the awaited Promise.all when that decides it.
\* A search that settles after the call has failed changes nothing else.
SearchSettles(c, resp) ==
    /\ search[c].state = "pending"
    /\ LET srch == [search EXCEPT ![c] = Settled(FindNearbyResult(resp), resp)]
       IN /\ search' = srch
          /\ IF poiPc # "awaiting" \/ Join(srch) = "wait"
             THEN UNCHANGED <<poiPc, poiOutcome>>
             ELSE IF Join(srch) = "reject"
             THEN /\ poiPc' = "done"
                  /\ poiOutcome' = Thrown(srch[c].res.value)
             ELSE /\ poiPc' = "done"
                  /\ LET lists == ResultsAsCalled(srch, Append(settleOrder, c))
                     IN poiOutcome' = Returned(Combine(lists[1], lists[2], lists[3]))
    /\ settleOrder' = IF poiPc = "awaiting" THEN Append(settleOrder, c) ELSE settleOrder
    /\ UNCHANGED <<apiKey, radius, requests, outsidePOI>>

NextPlaces ==
    \/ \E r \in AggregateRadii : CallFindAll(r)
    \/ \E c \in CategoryNames : \E resp \in PlacesResponses : SearchSettles(c, resp)

\* ------------------------------------------- findNearbyPOIs on its own
\* longest result list of a single search that is enumerated
MaxRanked == 3

\* ratings (tenths of a star, or none) and distances (meters) of the raw
\* results of a single search
RankedRatings == {NoRating, 39, 40, 44, 48}

RankedDistances == {0, 100, 200}

\* the result lists of a single search with up to max results: the place at
\* position i has id i
RankedLists(max) ==
    UNION {{[i \in 1..n |-> [placeId |-> i, rating |-> f[i][1], dist |-> f[i][2]]] :
               f \in [1..n -> RankedRatings \X RankedDistances]} : n \in 0..max}

\* what the place-search service can answer to a single search, with up to
\* max results
NearbyResponses(max) ==
    PlainResponses
    \cup {[fetch |-> "response", httpOk |-> TRUE, status |-> "OK", hasResults |-> TRUE, results |-> l] :
             l \in RankedLists(max)}

InitNearby ==
    /\ nearbyPc = "idle"
    /\ nearbySent = 0
    /\ nearbyResp = NoResponse
    /\ nearbyOutcome = NoOutcome

\* findNearbyPOIs(location, r, type) up to its await: the checks, then the
\* request
CallFindNearby(r) ==
    /\ nearbyPc = "idle"
    /\ IF PlacesPrecheck(apiKey, r) # "none"
       THEN /\ nearbyPc' = "done"
            /\ nearbySent' = nearbySent
            /\ nearbyOutcome' = Thrown(PlacesPrecheck(apiKey, r))
       ELSE /\ nearbyPc' = "awaitFetch"
            /\ nearbySent' = nearbySent + 1
            /\ nearbyOutcome' = nearbyOutcome
    /\ UNCHANGED <<apiKey, nearbyResp, outsideNearby>>

\* the place-search service answers: the response is checked, mapped to
\* places and sorted
NearbyResponds ==
    /\ nearbyPc = "awaitFetch"
    /\ \E resp \in NearbyResponses(MaxRanked) :
           /\ nearbyResp' = resp
           /\ nearbyOutcome' = IF FindNearbyResult(resp).ok
                               THEN Returned(FindNearbyResult(resp).value)
                               ELSE Thrown(FindNearbyResult(resp).value)
    /\ nearbyPc' = "done"
    /\ UNCHANGED <<apiKey, nearbySent, outsideNearby>>

NextNearby ==
    \/ \E r \in Radii : CallFindNearby(r)
    \/ NearbyResponds

\* ========================================================== directions.ts
\* largest number of legs of a route that is enumerated
MaxLegs == 2
\* largest number of steps of a leg that is enumerated
MaxLegSteps == 2

\* getWalkingDirections needs a start and an end
MinWaypoints == 2

WaypointCounts == 0..MaxWaypoints

\* the steps of a leg as the routing service gives them
RawSteps == [html_instructions : {"left", "right"}]

RawStepLists == UNION {[1..n -> RawSteps] : n \in 0..MaxLegSteps}

\* distance.value (meters) and duration.value (seconds) of a leg
LegMeasures == {<<100, 70>>, <<250, 200>>}

\* the legs of a route from their measures and steps: leg i goes from address
\* i to address i + 1
Legs(f) ==
    [i \in 1..Len(f) |-> [distance |-> f[i][1][1], duration |-> f[i][1][2], steps |-> f[i][2],
                          start_address |-> i, end_address |-> i + 1]]

\* an alternative route, listed after the best one
AltRoute ==
    [legs |-> <<[distance |-> 900, duration |-> 800, steps |-> <<[html_instructions |-> "left"]>>,
                start_address |-> 1, end_address |-> 2]>>]

DirectionsStatuses ==
    {"OK", "ZERO_RESULTS", "NOT_FOUND", "REQUEST_DENIED", "INVALID_REQUEST",
     "OVER_QUERY_LIMIT", "UNKNOWN_ERROR"}

\* what the routing service can answer to one request apart from status OK
\* with routes: no answer at all, an HTTP error, or a body with a status and no
\* route list, an empty one, or (the status not being OK) a route all the same
PlainDirectionsResponses ==
    {[fetch |-> "networkError", httpOk |-> FALSE, status |-> "OK", hasRoutes |-> FALSE, routes |-> <<>>],
     [fetch |-> "response", httpOk |-> FALSE, status |-> "OK", hasRoutes |-> FALSE, routes |-> <<>>],
     [fetch |-> "response", httpOk |-> TRUE, status |-> "OK", hasRoutes |-> TRUE, routes |-> <<>>]}
    \cup {[fetch |-> "response", httpOk |-> TRUE, status |-> st, hasRoutes |-> FALSE, routes |-> <<>>] :
             st \in DirectionsStatuses}
    \cup {[fetch |-> "response", httpOk |-> TRUE, status |-> st, hasRoutes |-> TRUE, routes |-> rs] :
             st \in DirectionsStatuses \ {"OK"}, rs \in {<<>>, <<AltRoute>>}}

\* the answer with status OK and the route of legs l, alone or followed by the
\* alternative route
RouteResponses(l) ==
    {[fetch |-> "response", httpOk |-> TRUE, status |-> "OK", hasRoutes |-> TRUE, routes |-> rs] :
        rs \in {<<[legs |-> l]>>, <<[legs |-> l], AltRoute>>}}

ErrWaypoints == "At least 2 waypoints required (start and end)"
ErrDirNetwork == "fetch failed"
ErrDirHttp == "Directions API error"
ErrDirNoRoute == "No walking route found between these points. Try different locations."
ErrDirNotFound == "One or more waypoints could not be located. Please check coordinates."
ErrDirDenied == "Directions API access denied. Please check API key permissions."
ErrDirInvalid == "Invalid route request. Please check waypoints."
ErrDirFailed(status) == "Failed to calculate route: " \o status
ErrDirNoLeg == "TypeError: Cannot read properties of undefined (reading 'start_address')"

\* a check that lets a single waypoint through
DirectionsPrecheckOne(key, n) ==
    IF ~key THEN ErrNoApiKey
    ELSE IF n < 1 THEN ErrWaypoints
    ELSE "none"

\* the checks of getWalkingDirections before its request: the message of the
\* error thrown for n waypoints, or "none"
DirectionsPrecheck(key, n) ==
    IF ~key THEN ErrNoApiKey
    ELSE IF n < MinWaypoints THEN ErrWaypoints
    ELSE "none"

\* the step pushed to allSteps for the step st of a leg
ToStep(st) == [instruction |-> st.html_instructions]

\* totals and steps taken from the first leg alone
TotalDistanceFirstLeg(legs) == legs[1].distance

AllStepsFirstLeg(legs) == [k \in 1..Len(legs[1].steps) |-> ToStep(legs[1].steps[k])]

RECURSIVE TotalDistance(_)
\* totalDistance after route.legs.forEach
TotalDistance(legs) ==
    IF legs = <<>> THEN 0
    ELSE TotalDistance(SubSeq(legs, 1, Len(legs) - 1)) + legs[Len(legs)].distance

RECURSIVE TotalDuration(_)
\* totalDuration after route.legs.forEach
TotalDuration(legs) ==
    IF legs = <<>> THEN 0
    ELSE TotalDuration(SubSeq(legs, 1, Len(legs) - 1)) + legs[Len(legs)].duration

RECURSIVE AllSteps(_)
\* allSteps after route.legs.forEach
AllSteps(legs) ==
    IF legs = <<>> THEN <<>>
    ELSE AllSteps(SubSeq(legs, 1, Len(legs) - 1))
         \o [k \in 1..Len(legs[Len(legs)].steps) |-> ToStep(legs[Len(legs)].steps[k])]

\* status checks that report NOT_FOUND as ZERO_RESULTS is reported
DirectionsStatusErrorShared(status) ==
    IF status \in {"ZERO_RESULTS", "NOT_FOUND"} THEN ErrDirNoRoute
    ELSE IF status = "REQUEST_DENIED" THEN ErrDirDenied
    ELSE IF status = "INVALID_REQUEST" THEN ErrDirInvalid
    ELSE "none"

\* the checks of data.status that have an error of their own: its message,
\* or "none"
DirectionsStatusError(status) ==
    IF status = "ZERO_RESULTS" THEN ErrDirNoRoute
    ELSE IF status = "NOT_FOUND" THEN ErrDirNotFound
    ELSE IF status = "REQUEST_DENIED" THEN ErrDirDenied
    ELSE IF status = "INVALID_REQUEST" THEN ErrDirInvalid
    ELSE "none"

\* how getWalkingDirections(waypoints) settles when the routing service
\* answers resp to its request, n being the number of waypoints
DirectionsOutcome(resp, n) ==
    IF resp.fetch = "networkError" THEN Err(ErrDirNetwork)
    ELSE IF ~resp.httpOk THEN Err(ErrDirHttp)
    ELSE IF DirectionsStatusError(resp.status) # "none"
    THEN Err(DirectionsStatusError(resp.status))
    ELSE IF resp.status # "OK" \/ ~resp.hasRoutes \/ Len(resp.routes) = 0
    THEN Err(ErrDirFailed(resp.status))
    ELSE LET route == resp.routes[1]
         IN IF Len(route.legs) = 0 THEN Err(ErrDirNoLeg)
            ELSE Ok([distance |-> TotalDistance(route.legs),
                     duration |-> TotalDuration(route.legs),
                     startAddress |-> route.legs[1].start_address,
                     endAddress |-> route.legs[1].end_address,
                     waypoints |-> n,
                     steps |-> AllSteps(route.legs)])

InitDirections ==
    /\ dirWaypoints = 0
    /\ dirPc = "idle"
    /\ dirSent = 0
    /\ dirResp = NoResponse
    /\ dirOutcome = NoOutcome

\* getWalkingDirections(waypoints) with n waypoints, up to its await: the
\* checks, then the request
CallDirections(n) ==
    /\ dirPc = "idle"
    /\ dirWaypoints' = n
    /\ IF DirectionsPrecheck(apiKey, n) # "none"
       THEN /\ dirPc' = "done"
            /\ dirSent' = dirSent
            /\ dirOutcome' = Thrown(DirectionsPrecheck(apiKey, n))
       ELSE /\ dirPc' = "awaitFetch"
            /\ dirSent' = dirSent + 1
            /\ dirOutcome' = dirOutcome
    /\ UNCHANGED <<apiKey, dirResp, outsideDirections>>

\* getWalkingDirections after its await, the routing service having answered
\* resp: the response is checked and the result is built from the first route
DirectionsSettles(resp) ==
    /\ dirResp' = resp
    /\ dirOutcome' = IF DirectionsOutcome(resp, dirWaypoints).ok
                     THEN Returned(DirectionsOutcome(resp, dirWaypoints).value)
                     ELSE Thrown(DirectionsOutcome(resp, dirWaypoints).value)
    /\ dirPc' = "done"
    /\ UNCHANGED <<apiKey, dirWaypoints, dirSent, outsideDirections>>

\* the routing service answers without a usable route
DirectionsFails ==
    /\ dirPc = "awaitFetch"
    /\ \E resp \in PlainDirectionsResponses : DirectionsSettles(resp)

\* the routing service answers status OK with a route of up to MaxLegs legs
DirectionsResponds ==
    /\ dirPc = "awaitFetch"
    /\ \E n \in 0..MaxLegs : \E f \in [1..n -> LegMeasures \X RawStepLists] :
           \E resp \in RouteResponses(Legs(f)) : DirectionsSettles(resp)

NextDirections ==
    \/ \E n \in WaypointCounts : CallDirections(n)
    \/ DirectionsFails
    \/ DirectionsResponds

\* ================================================ RecommendationsClient.tsx
\* largest number of generation attempts of one page visit that is enumerated
MaxAttempts == 2

\* useState(null)
NoRoute == "none"

NoForm ==
    [given |-> FALSE, location |-> NoLocation, distance |-> 0, circular |-> FALSE,
     mustInclude |-> <<>>, preferences |-> ""]

\* the form data a visitor submits: a valid request for a circular and for a
\* linear walk, a location that is too short, a distance that is too long
ClientForms ==
    {[given |-> TRUE, location |-> [missing |-> FALSE, text |-> <<"a", "a">>], distance |-> 5,
      circular |-> FALSE, mustInclude |-> <<>>, preferences |-> ""],
     [given |-> TRUE, location |-> [missing |-> FALSE, text |-> <<"a", "a">>], distance |-> 3,
      circular |-> TRUE, mustInclude |-> <<"cafe">>, preferences |-> "shade"]}
    \cup {[given |-> TRUE, location |-> [missing |-> FALSE, text |-> <<"a">>], distance |-> 5,
           circular |-> FALSE, mustInclude |-> <<>>, preferences |-> ""],
          [given |-> TRUE, location |-> [missing |-> FALSE, text |-> <<"a", "a">>],
           distance |-> MaxDistanceKm + 1, circular |-> FALSE, mustInclude |-> <<>>,
           preferences |-> ""]}

ToastGenerated == "Custom route generated!"

\* a catch that leaves the displayed route as it is
RouteAfterAttemptKept(shown, out) ==
    IF out.kind = "route" THEN out.value ELSE shown

\* `customRoute` once the attempt has settled with out: setCustomRoute(route)
\* after the await, setCustomRoute(null) in the catch
RouteAfterAttempt(shown, out) ==
    IF out.kind = "route" THEN out.value ELSE NoRoute

\* the toast of an attempt that has settled with out
ToastAfterAttempt(out) ==
    IF out.kind = "route" THEN ToastGenerated ELSE out.value

InitClient ==
    /\ customRoute = NoRoute
    /\ lastFormData = NoForm
    /\ isSaved = FALSE
    /\ inflight = NoForm
    /\ toasts = <<>>
    /\ clicked = "none"
    /\ routeNo = 0
    /\ isWiggling = FALSE
    /\ isSaving = FALSE
    /\ showEmojiRain = FALSE
    /\ wiggleTimers = <<>>
    /\ savesInFlight = <<>>
    /\ saveCalls = <<>>
    /\ savedRoutes = {}
    /\ saveToasts = <<>>

\* handleCustomRouteSubmit(data) up to the await inside its transition; the
\* form and the button that call it are not usable while a transition is
\* pending
HandleCustomRouteSubmit(data) ==
    /\ Len(toasts) < MaxAttempts
    /\ ~inflight.given
    /\ lastFormData' = data
    /\ isSaved' = FALSE
    /\ inflight' = data
    /\ UNCHANGED <<customRoute, toasts, routeNo, saveVars, apiKey, actionVars, outsideClient>>

\* CustomRouteForm calls onSubmit with the data the visitor entered
Submit(data) ==
    /\ HandleCustomRouteSubmit(data)
    /\ clicked' = "form"

\* a Show Me Another that asks for the other kind of walk than the last one
ShowMeAnotherFlipped ==
    /\ customRoute # NoRoute
    /\ lastFormData.given
    /\ HandleCustomRouteSubmit([lastFormData EXCEPT !.circular = ~lastFormData.circular])
    /\ clicked' = "another"

\* handleShowMeAnother: the button is there while a route is displayed and no
\* attempt is pending; without submitted form data the handler returns
ShowMeAnother ==
    /\ customRoute # NoRoute
    /\ lastFormData.given
    /\ HandleCustomRouteSubmit(lastFormData)
    /\ clicked' = "another"

\* the server runs generateCustomRouteAction for the pending attempt
ServerInvoke ==
    /\ inflight.given
    /\ Invoke(inflight.location, inflight.distance, inflight.circular)

\* the awaited generateCustomRouteAction has settled: the rest of the
\* transition, or its catch; the server action's invocation is over
AttemptSettles ==
    /\ inflight.given
    /\ pc = "done"
    /\ customRoute' = RouteAfterAttempt(customRoute, outcome)
    /\ routeNo' = IF RouteAfterAttempt(customRoute, outcome) = NoRoute
                  THEN 0
                  ELSE IF outcome.kind = "route" THEN Len(toasts) + 1 ELSE routeNo
    /\ toasts' = Append(toasts, ToastAfterAttempt(outcome))
    /\ inflight' = NoForm
    /\ location' = NoLocation
    /\ distance' = 0
    /\ circular' = FALSE
    /\ proposal' = NoProposal
    /\ pc' = "idle"
    /\ calls' = <<>>
    /\ returns' = <<>>
    /\ outcome' = NoOutcome
    /\ UNCHANGED <<envFlag, sessionUser, apiKey, lastFormData, isSaved, clicked, saveVars, outsideClient>>

\* largest number of Save Walk requests of one page visit that is enumerated
MaxSaves == 2

ToastSaved == "Walk saved successfully!"
ToastSaveFailed == "Failed to save walk"

\* a handler that takes every request for a displayed route
SaveAllowedAlways(route, saving, saved, wiggling) == route # NoRoute

\* handleSaveWalk goes on: not (!customRoute || isSaving || isSaved ||
\* isWiggling); the button is disabled under the same three flags
SaveAllowed(route, saving, saved, wiggling) ==
    route # NoRoute /\ ~saving /\ ~saved /\ ~wiggling

\* the variables of the server action and of an attempt, which the save
\* flow leaves alone
outsideSave ==
    <<customRoute, lastFormData, inflight, toasts, clicked, routeNo, apiKey, actionVars,
      outsideClient>>

\* a click on Save Walk: handleSaveWalk up to its setTimeout. The button is
\* in the route panel, which is rendered while no attempt is pending
SaveWalk ==
    /\ Len(saveCalls) + Len(wiggleTimers) < MaxSaves
    /\ ~inflight.given
    /\ SaveAllowed(customRoute, isSaving, isSaved, isWiggling)
    /\ isWiggling' = TRUE
    /\ wiggleTimers' = Append(wiggleTimers, routeNo)
    /\ UNCHANGED <<isSaving, isSaved, showEmojiRain, savesInFlight, saveCalls, savedRoutes,
                   saveToasts, outsideSave>>

\* the timer of handleSaveWalk fires after 2 seconds: its callback up to the
\* await, which calls saveGeneratedWalkAction with the customRoute of the
\* render in which Save Walk was clicked
WiggleEnds ==
    /\ wiggleTimers # <<>>
    /\ isWiggling' = FALSE
    /\ isSaving' = TRUE
    /\ wiggleTimers' = Tail(wiggleTimers)
    /\ savesInFlight' = Append(savesInFlight, Head(wiggleTimers))
    /\ saveCalls' = Append(saveCalls, [route |-> Head(wiggleTimers), held |-> routeNo])
    /\ UNCHANGED <<isSaved, showEmojiRain, savedRoutes, saveToasts, outsideSave>>

\* the awaited saveGeneratedWalkAction has settled, stored or not: the rest
\* of the callback, or its catch, and its finally
SaveSettles(stored) ==
    /\ savesInFlight # <<>>
    /\ savesInFlight' = Tail(savesInFlight)
    /\ IF stored
       THEN /\ savedRoutes' = savedRoutes \cup {Head(savesInFlight)}
            /\ isSaved' = TRUE
            /\ showEmojiRain' = TRUE
            /\ saveToasts' = Append(saveToasts, ToastSaved)
       ELSE /\ saveToasts' = Append(saveToasts, ToastSaveFailed)
            /\ UNCHANGED <<savedRoutes, isSaved, showEmojiRain>>
    /\ isSaving' = FALSE
    /\ UNCHANGED <<isWiggling, wiggleTimers, saveCalls, outsideSave>>

\* the timer of the emoji rain fires after 3 seconds
EmojiRainEnds ==
    /\ showEmojiRain
    /\ showEmojiRain' = FALSE
    /\ UNCHANGED <<isWiggling, isSaving, isSaved, wiggleTimers, savesInFlight, saveCalls,
                   savedRoutes, saveToasts, outsideSave>>

NextClient ==
    \/ \E data \in ClientForms : Submit(data)
    \/ SaveWalk
    \/ WiggleEnds
    \/ \E stored \in BOOLEAN : SaveSettles(stored)
    \/ EmojiRainEnds
    \/ ShowMeAnother
    \/ ServerInvoke
    \/ AuthReturns
    \/ PipelineStart
    \/ \E st \in StageNames : \E res \in StageOutcomes(st, apiKey, location) : StageReturns(st, res)
    \/ SelectorReturns
    \/ AttemptSettles

\* ===================================== WalksList (part_002), deleteWalkAction
\* largest number of walks of the visitor that is enumerated
MaxWalks == 3
\* largest number of deletions started in one page visit that is enumerated
MaxDeletes == 3

WalkIds == 1..MaxWalks

ToastDeleted == "Walk deleted successfully"
ToastDeleteFailed == "Failed to delete walk. Please try again."

\* what deleteWalkAction does with a request: the row is deleted, the session
\* has no user, or the database reports an error
DeleteResults == {"deleted", "unauthorized", "dbError"}

\* the reducer of useOptimistic applied to the pending updates:
\* currentWalks.filter(walk => walk.id !== walkIdToDelete)
OptimisticWalks == SelectSeq(initialWalks, LAMBDA id : id \notin removed)

\* the walks whose handleDelete has not settled
PendingDeletes == {w \in WalkIds : deletes[w] # "idle"}

\* a page with no walk and nothing pending
WalksIdle ==
    /\ dbWalks = {}
    /\ initialWalks = <<>>
    /\ removed = {}
    /\ deletes = [w \in WalkIds |-> "idle"]
    /\ walkToasts = <<>>

\* the page has rendered the n walks of the visitor
InitWalks ==
    /\ \E n \in 1..MaxWalks :
        /\ dbWalks = 1..n
        /\ initialWalks = [i \in 1..n |-> i]
    /\ removed = {}
    /\ deletes = [w \in WalkIds |-> "idle"]
    /\ walkToasts = <<>>

\* the visitor confirms the deletion on the card of walk w: WalkCard starts a
\* transition that calls handleDelete(w), which removes the walk
\* optimistically and sends the request of onDelete(w)
HandleDelete(w) ==
    /\ Len(walkToasts) + Cardinality(PendingDeletes) < MaxDeletes
    /\ \E i \in 1..Len(OptimisticWalks) : OptimisticWalks[i] = w
    /\ deletes[w] = "idle"
    /\ removed' = removed \cup {w}
    /\ deletes' = [deletes EXCEPT ![w] = "sent"]
    /\ UNCHANGED <<dbWalks, initialWalks, walkToasts, outsideWalks>>

\* deleteWalkAction(w) runs on the server with result res: the row is deleted
\* and the page revalidated, or the action throws
DeleteWalkAction(w, res) ==
    /\ deletes[w] = "sent"
    /\ dbWalks' = IF res = "deleted" THEN dbWalks \ {w} ELSE dbWalks
    /\ deletes' = [deletes EXCEPT ![w] = IF res = "deleted" THEN "resolved" ELSE "rejected"]
    /\ UNCHANGED <<initialWalks, removed, walkToasts, outsideWalks>>

\* the optimistic updates left when the transition of walk w has ended while
\* those in others are pending: React drops the update of w with its
\* transition, or keeps it until the last pending transition has ended
RemovedAfter(w, others) ==
    IF others = {} THEN {{}} ELSE {removed \ {w}, removed}

\* a failed deletion that raises no toast
ToastAfterDeleteSilent(w, state) ==
    IF state = "resolved" THEN <<[walk |-> w, text |-> ToastDeleted]>> ELSE <<>>

\* handleDelete's toast once onDelete(w) has settled
ToastAfterDelete(w, state) ==
    IF state = "resolved"
    THEN <<[walk |-> w, text |-> ToastDeleted]>>
    ELSE <<[walk |-> w, text |-> ToastDeleteFailed]>>

\* a page that keeps the list it rendered before the deletion
ListAfterDeleteStale(list, rows) == list

\* the list the page renders after a deletion: the revalidated page holds the
\* rows that are left
ListAfterDelete(list, rows) == SelectSeq(list, LAMBDA id : id \in rows)

\* the awaited onDelete(w) has settled: the rest of handleDelete, or its
\* catch; the transition ends, the page shows the revalidated list
DeleteSettles(w) ==
    /\ deletes[w] \in {"resolved", "rejected"}
    /\ walkToasts' = walkToasts \o ToastAfterDelete(w, deletes[w])
    /\ deletes' = [deletes EXCEPT ![w] = "idle"]
    /\ initialWalks' = ListAfterDelete(initialWalks, dbWalks)
    /\ removed' \in RemovedAfter(w, PendingDeletes \ {w})
    /\ UNCHANGED <<dbWalks, outsideWalks>>

NextWalks ==
    \/ \E w \in WalkIds : HandleDelete(w)
    \/ \E w \in WalkIds : \E res \in DeleteResults : DeleteWalkAction(w, res)
    \/ \E w \in WalkIds : DeleteSettles(w)

\* ================================================== WalkCard (WalkCard.tsx)
\* largest number of clicks on one card's delete button that is enumerated
MaxClicks == 4

NoWalk == 0

\* no card is rendered on its own
CardIdle ==
    /\ cardWalk = NoWalk
    /\ cardOnDelete = FALSE
    /\ cardPending = FALSE
    /\ confirms = <<>>
    /\ onDeleteCalls = <<>>

\* <WalkCard walk={walk} /> or <WalkCard walk={walk} onDelete={onDelete} />
InitCard ==
    /\ cardWalk \in WalkIds
    /\ cardOnDelete \in BOOLEAN
    /\ cardPending = FALSE
    /\ confirms = <<>>
    /\ onDeleteCalls = <<>>

\* a card that shows its delete button whatever its props
DeleteButtonAlways(given) == TRUE

\* {onDelete && (<button ... onClick={handleDelete}>Delete</button>)}
DeleteButtonShown(given) == given

\* a handler that does not ask
CallsOnDeleteUnasked(answer, given) == given

\* handleDelete calls onDelete: the dialog was confirmed and the prop is there
CallsOnDelete(answer, given) == answer /\ given

\* a click on the delete button, the dialog answered with `answer`:
\* handleDelete. While the card's transition is pending the card takes no
\* click (pointer-events-none)
ClickDelete(answer) ==
    /\ Len(confirms) < MaxClicks
    /\ DeleteButtonShown(cardOnDelete)
    /\ ~cardPending
    /\ confirms' = Append(confirms, answer)
    /\ IF CallsOnDelete(answer, cardOnDelete)
       THEN /\ onDeleteCalls' = Append(onDeleteCalls, cardWalk)
            /\ cardPending' = TRUE
       ELSE UNCHANGED <<onDeleteCalls, cardPending>>
    /\ UNCHANGED <<cardWalk, cardOnDelete, outsideCard>>

\* the awaited onDelete(walk.id) has settled: the card's transition ends
OnDeleteSettles ==
    /\ cardPending
    /\ cardPending' = FALSE
    /\ UNCHANGED <<cardWalk, cardOnDelete, confirms, onDeleteCalls, outsideCard>>

NextCard ==
    \/ \E answer \in BOOLEAN : ClickDelete(answer)
    \/ OnDeleteSettles

\* ============================================================ proxy (proxy.ts)
\* largest number of redirects followed in one navigation that is enumerated
MaxHops == 3

\* a path: its segments and the extension of the last one
Path(segs, ext) == [segs |-> segs, ext |-> ext]

NoPath == Path(<<>>, "none")
LoginPath == Path(<<"login">>, "")
SignupPath == Path(<<"signup">>, "")
RecommendationsPath == Path(<<"recommendations">>, "")

\* the paths a browser asks for: the pages, a page below another, a script
\* of the build, the icon, an image of the public folder
Paths ==
    {LoginPath, SignupPath, RecommendationsPath, Path(<<>>, ""),
     Path(<<"walks", "new">>, ""), Path(<<"login", "help">>, ""),
     Path(<<"_next", "static", "app">>, "js"), Path(<<"favicon">>, "ico"),
     Path(<<"logo">>, "png")}

ImageExtensions == {"svg", "png", "jpg", "jpeg", "gif", "webp"}

\* a sequence begins with another
StartsWith(seq, prefix) ==
    /\ Len(seq) >= Len(prefix)
    /\ SubSeq(seq, 1, Len(prefix)) = prefix

\* config.matcher: every path but those under _next/static and _next/image,
\* favicon.ico and the image files
Matches(p) ==
    /\ ~StartsWith(p.segs, <<"_next", "static">>)
    /\ ~StartsWith(p.segs, <<"_next", "image">>)
    /\ ~(p.segs = <<"favicon">> /\ p.ext = "ico")
    /\ p.ext \notin ImageExtensions

\* publicRoutes.includes(request.nextUrl.pathname)
IsPublicRoute(p) == p \in {LoginPath, SignupPath}

\* what the auth service does: it returns a user, it returns none, the call
\* throws
AuthAnswers == {"user", "none", "throws"}

NoProxyResponse == [kind |-> "none", path |-> NoPath]
PassedThrough == [kind |-> "next", path |-> NoPath]
RedirectTo(p) == [kind |-> "redirect", path |-> p]

\* a proxy that sends the logged-in visitor of a public route to the login
\* page
HomeOfUserLogin == LoginPath

\* where the logged-in visitor of a public route is sent
HomeOfUser == RecommendationsPath

\* a catch that lets every request through
ProxyResponseOpen(p, answer) ==
    IF answer = "throws"
    THEN PassedThrough
    ELSE IF answer = "none" /\ ~IsPublicRoute(p) THEN RedirectTo(LoginPath)
    ELSE IF answer = "user" /\ IsPublicRoute(p) THEN RedirectTo(HomeOfUser)
    ELSE PassedThrough

\* the response of proxy(request) for path p once the auth call has
\* answered, or thrown into the catch
ProxyResponse(p, answer) ==
    IF answer = "throws"
    THEN IF IsPublicRoute(p) THEN PassedThrough ELSE RedirectTo(LoginPath)
    ELSE IF answer = "none" /\ ~IsPublicRoute(p) THEN RedirectTo(LoginPath)
    ELSE IF answer = "user" /\ IsPublicRoute(p) THEN RedirectTo(HomeOfUser)
    ELSE PassedThrough

\* no request was sent
ProxyIdle ==
    /\ session = "none"
    /\ request = NoPath
    /\ proxyPc = "idle"
    /\ answers = <<>>
    /\ response = NoProxyResponse
    /\ hops = 0

InitProxy ==
    /\ session \in AuthAnswers
    /\ request = NoPath
    /\ proxyPc = "idle"
    /\ answers = <<>>
    /\ response = NoProxyResponse
    /\ hops = 0

\* the request for path p arrives: a path the matcher leaves out is served
\* without the proxy, for the others proxy(request) runs up to its await
Receive(p) ==
    /\ request' = p
    /\ IF Matches(p)
       THEN /\ proxyPc' = "awaitAuth"
            /\ response' = NoProxyResponse
       ELSE /\ proxyPc' = "done"
            /\ response' = PassedThrough

\* the browser asks for path p: a new navigation
Navigate(p) ==
    /\ proxyPc \in {"idle", "done"}
    /\ Receive(p)
    /\ answers' = <<>>
    /\ hops' = 0
    /\ UNCHANGED <<session, outsideProxy>>

\* supabase.auth.getUser() has answered or thrown: the rest of proxy
GetUserSettles ==
    /\ proxyPc = "awaitAuth"
    /\ answers' = Append(answers, session)
    /\ response' = ProxyResponse(request, session)
    /\ proxyPc' = "done"
    /\ UNCHANGED <<session, request, hops, outsideProxy>>

\* the browser follows the redirect it was answered with
FollowRedirect ==
    /\ proxyPc = "done"
    /\ response.kind = "redirect"
    /\ hops < MaxHops
    /\ Receive(response.path)
    /\ hops' = hops + 1
    /\ UNCHANGED <<session, answers, outsideProxy>>

\* the visitor logs in or out, the session expires, the auth service goes
\* down or comes back
SessionChanges(to) ==
    /\ to # session
    /\ session' = to
    /\ UNCHANGED <<request, proxyPc, answers, response, hops, outsideProxy>>

NextProxy ==
    \/ \E p \in Paths : Navigate(p)
    \/ GetUserSettles
    \/ FollowRedirect
    \/ \E to \in AuthAnswers : SessionChanges(to)

\* ========================================================== specifications

\* the values of the server action's variables while it is not running
ActionIdle ==
    /\ envFlag = "true"
    /\ sessionUser = NoUser
    /\ location = NoLocation
    /\ distance = 0
    /\ circular = FALSE
    /\ proposal = NoProposal
    /\ pc = "idle"
    /\ calls = <<>>
    /\ returns = <<>>
    /\ outcome = NoOutcome

\* the other pages and the proxy with nothing going on
SiteIdle == WalksIdle /\ CardIdle /\ ProxyIdle

\* the server action and the pipeline
Init == InitAction /\ InitPOI /\ InitNearby /\ InitDirections /\ InitClient /\ SiteIdle

Spec == Init /\ [][Next]_vars

\* findAllDogWalkingPOIs called on its own
InitPlaces ==
    /\ InitPOI
    /\ apiKey \in BOOLEAN
    /\ ActionIdle
    /\ InitNearby
    /\ InitDirections
    /\ InitClient
    /\ SiteIdle

SpecPOI == InitPlaces /\ [][NextPlaces]_vars

\* findNearbyPOIs called on its own
InitSearch ==
    /\ InitNearby
    /\ apiKey \in BOOLEAN
    /\ ActionIdle
    /\ InitPOI
    /\ InitDirections
    /\ InitClient
    /\ SiteIdle

SpecNearby == InitSearch /\ [][NextNearby]_vars

\* getWalkingDirections called on its own
InitRoute ==
    /\ InitDirections
    /\ apiKey \in BOOLEAN
    /\ ActionIdle
    /\ InitPOI
    /\ InitNearby
    /\ InitClient
    /\ SiteIdle

SpecDirections == InitRoute /\ [][NextDirections]_vars

\* the page of the visitor's walks
InitWalksPage ==
    /\ InitWalks
    /\ CardIdle
    /\ ProxyIdle
    /\ apiKey \in BOOLEAN
    /\ ActionIdle
    /\ InitPOI
    /\ InitNearby
    /\ InitDirections
    /\ InitClient

SpecWalks == InitWalksPage /\ [][NextWalks]_vars

\* one WalkCard rendered on its own
InitCardAlone ==
    /\ InitCard
    /\ WalksIdle
    /\ ProxyIdle
    /\ apiKey \in BOOLEAN
    /\ ActionIdle
    /\ InitPOI
    /\ InitNearby
    /\ InitDirections
    /\ InitClient

SpecCard == InitCardAlone /\ [][NextCard]_vars

\* the proxy in front of the application
InitSite ==
    /\ InitProxy
    /\ WalksIdle
    /\ CardIdle
    /\ apiKey \in BOOLEAN
    /\ ActionIdle
    /\ InitPOI
    /\ InitNearby
    /\ InitDirections
    /\ InitClient

SpecProxy == InitSite /\ [][NextProxy]_vars

\* the recommendations page with the server action behind it
SpecClient == Init /\ [][NextClient]_vars

\* the Geocoder stage ends without a request: geocodeLocation throws before
\* its fetch
GeocoderFailsLocally ==
    /\ GeocodePrecheck(apiKey, Trim(location.text)) # "none"
    /\ StageReturns("geocoder", Err(GeocodePrecheck(apiKey, Trim(location.text))))

\* a stage after the Geocoder settles
LaterStageReturns ==
    \E st \in StageNames \ {"geocoder"} :
        \E res \in StageOutcomes(st, apiKey, location) : StageReturns(st, res)

\* the server action and the pipeline, with every step taken sooner or later
\* but one: the answer of the authentication service, the start of the
\* pipeline, a Geocoder check that fails before the request, the stages after
\* the Geocoder. The fetch awaited by geocodeLocation goes on only when the
\* location-resolution service answers, which nothing guarantees.
SpecLive ==
    /\ Init
    /\ [][Next]_vars
    /\ WF_vars(AuthReturns)
    /\ WF_vars(PipelineStart)
    /\ WF_vars(GeocoderFailsLocally)
    /\ WF_vars(LaterStageReturns)
    /\ WF_vars(SelectorReturns)

\* ---------------------------------------------------------------- properties
\* the pipeline stages among the calls made so far, in call order
StageCalls == SelectSeq(calls, LAMBDA c : c \in StageNames)

\* the action has got past its authentication call
PastAuth == pc \notin {"idle", "awaitAuth"}

\* length of a text once leading and trailing spaces are removed
TrimmedLen(t) ==
    LET idx == {i \in 1..Len(t) : t[i] # " "}
    IN IF idx = {} THEN 0
       ELSE (CHOOSE i \in idx : \A j \in idx : j <= i)
            - (CHOOSE i \in idx : \A j \in idx : i <= j) + 1

LocationTooShort(loc) == loc.missing \/ TrimmedLen(loc.text) < 2

\* C1: with the availability flag not enabled, every invocation ends with the
\* feature-disabled error, whatever the inputs, and nothing has been called:
\* neither the authentication service nor any pipeline stage.
C1_FeatureDisabled ==
    (envFlag # "true" /\ pc # "idle")
        => /\ pc = "done"
           /\ outcome = Thrown(ErrUnavailable)
           /\ calls = <<>>

C1_Witness ==
    /\ envFlag = "unset"
    /\ sessionUser # NoUser
    /\ pc = "done"
    /\ ~location.missing /\ TrimmedLen(location.text) >= 2
    /\ distance = 5
    /\ outcome = Thrown(ErrUnavailable)

\* C2: with the flag enabled and no authenticated identity, every invocation
\* ends with the unauthorized error, whatever the location and distance, and
\* the only call made is the one to the authentication service.
C2_Unauthorized ==
    (envFlag = "true" /\ sessionUser = NoUser /\ PastAuth)
        => /\ pc = "done"
           /\ outcome = Thrown(ErrNotLoggedIn)
           /\ calls = <<"auth">>

C2_Witness ==
    /\ envFlag = "true" /\ sessionUser = NoUser
    /\ pc = "done"
    /\ location.missing
    /\ distance > 10
    /\ outcome = Thrown(ErrNotLoggedIn)

\* C3: with the flag enabled and the caller authenticated, a location that is
\* missing or trims to fewer than 2 characters ends the invocation with an
\* invalid-input error, whatever the distance, and no pipeline stage is called.
C3_ShortLocationRejected ==
    (envFlag = "true" /\ sessionUser # NoUser /\ PastAuth /\ LocationTooShort(location))
        => /\ pc = "done"
           /\ outcome \in {Thrown(ErrEnterLocation), Thrown(ErrValidLocation)}
           /\ calls = <<"auth">>

C3_Witness ==
    /\ envFlag = "true" /\ sessionUser # NoUser
    /\ pc = "done"
    /\ location.text = <<"a", " ">>
    /\ distance = 5
    /\ outcome = Thrown(ErrValidLocation)

C5_StagesInOrderFailFast ==
    /\ Len(StageCalls) <= Len(Stages)
    /\ \A i \in 1..Len(StageCalls) : StageCalls[i] = Stages[i]
    /\ Len(returns) <= Len(StageCalls)
    /\ Len(StageCalls) <= Len(returns) + 1
    /\ \A i \in 1..Len(returns) : returns[i].stage = Stages[i]
    /\ \A i \in 1..Len(returns) :
          ~returns[i].res.ok
              => /\ i = Len(returns)
                 /\ Len(StageCalls) = i
                 /\ pc = "done"
                 /\ outcome = Thrown(returns[i].res.value)

C5_Witness ==
    /\ pc = "done"
    /\ StageCalls = <<"geocoder">>
    /\ outcome = Thrown(ErrGeoNotFound)

\* every category search has settled
AllSettled == \A c \in CategoryNames : search[c].state \in {"fulfilled", "rejected"}

\* the lists the three category searches returned, concatenated in the order
\* parks, cafes, dog parks
Concatenated ==
    search.parks.res.value \o search.cafes.res.value \o search.dogParks.res.value

IdsOf(l) == {l[i].placeId : i \in 1..Len(l)}

FirstIndex(l, id) == CHOOSE i \in 1..Len(l) : l[i].placeId = id /\ \A j \in 1..(i - 1) : l[j].placeId # id

LastIndex(l, id) == CHOOSE i \in 1..Len(l) : l[i].placeId = id /\ \A j \in (i + 1)..Len(l) : l[j].placeId # id

\* C6: findAllDogWalkingPOIs fails if and only if every one of its three
\* category searches fails; with at least one search succeeding it returns.
C6_FailsOnlyIfAllFail ==
    (poiPc = "done" /\ AllSettled)
        => (poiOutcome.kind = "error" <=> \A c \in CategoryNames : search[c].state = "rejected")

\* C7 as claimed: a radius above 50,000 always ends in the radius error with
\* no request sent, and a radius of exactly 50,000 never ends in it.
C7_RadiusErrorAlways ==
    /\ (poiPc # "idle" /\ radius > 50000)
          => /\ poiPc = "done"
             /\ poiOutcome = Thrown(ErrRadius)
             /\ requests = <<>>
    /\ (poiPc # "idle" /\ radius = 50000 /\ poiOutcome.kind = "error")
          => poiOutcome.value # ErrRadius

\* C7 as amended: a radius above 50,000 makes every category search and the
\* aggregate call fail before any request is sent, with the radius error when
\* the API key is set and with the missing-key error otherwise; with the key
\* set a radius of exactly 50,000 is accepted and all three requests are sent.
C7_RadiusCap ==
    /\ (poiPc # "idle" /\ radius > 50000)
          => /\ poiPc = "done"
             /\ poiOutcome = Thrown(IF apiKey THEN ErrRadius ELSE ErrNoApiKey)
             /\ \A c \in CategoryNames : search[c].state = "rejected"
             /\ requests = <<>>
    /\ (poiPc # "idle" /\ radius = 50000 /\ apiKey)
          => /\ requests = Categories
             /\ poiOutcome.kind = "error" => poiOutcome.value # ErrRadius
             /\ \A c \in CategoryNames :
                   search[c].state = "rejected" => search[c].res.value # ErrRadius

C7_Witness ==
    /\ apiKey
    /\ radius = 50001
    /\ poiPc = "done"
    /\ poiOutcome = Thrown(ErrRadius)
    /\ requests = <<>>

\* C8: a category search answered with ZERO_RESULTS is fulfilled with the empty
\* list; a failure of the aggregate call is always the failure of a search that
\* was not answered with ZERO_RESULTS; and when no search fails the call
\* returns every category's list as the search returned it.
C8_ZeroResultsTolerated ==
    /\ \A c \in CategoryNames :
          search[c].resp.status = "ZERO_RESULTS"
              => search[c].state = "fulfilled" /\ search[c].res = Ok(<<>>)
    /\ poiOutcome.kind = "error"
          => \E c \in CategoryNames :
                /\ search[c].state = "rejected"
                /\ search[c].resp.status # "ZERO_RESULTS"
                /\ poiOutcome.value = search[c].res.value
    /\ (\A c \in CategoryNames : search[c].state = "fulfilled")
          => /\ poiOutcome.kind = "route"
             /\ \A c \in CategoryNames : poiOutcome.value[c] = search[c].res.value

C8_Witness ==
    /\ search.parks.resp.status = "ZERO_RESULTS"
    /\ search.dogParks.resp.status = "ZERO_RESULTS"
    /\ poiOutcome.kind = "route"
    /\ poiOutcome.value.parks = <<>>
    /\ Len(poiOutcome.value.cafes) = 1
    /\ Len(poiOutcome.value.all) = 1

\* C9: the merged list holds every place id returned by a category search
\* exactly once: no two entries share a place id and no id is missing.
C9_MergedIdsUnique ==
    poiOutcome.kind = "route"
        => LET all == poiOutcome.value.all
           IN /\ \A i, j \in 1..Len(all) : all[i].placeId = all[j].placeId => i = j
              /\ IdsOf(all) = IdsOf(Concatenated)

C9_Witness ==
    /\ poiOutcome.kind = "route"
    /\ Len(search.parks.res.value) = 1
    /\ Len(search.dogParks.res.value) = 1
    /\ search.parks.res.value[1].placeId = search.dogParks.res.value[1].placeId
    /\ Len(search.cafes.res.value) = 1
    /\ search.cafes.res.value[1].placeId # search.parks.res.value[1].placeId
    /\ Len(poiOutcome.value.all) = 2

\* C10 as claimed: every merged entry is the record of the first occurrence of
\* its place id in the concatenation parks, cafes, dog parks, and the entries
\* are in the order of those first occurrences.
C10_KeepsFirstOccurrence ==
    poiOutcome.kind = "route"
        => LET all == poiOutcome.value.all
           IN /\ \A i \in 1..Len(all) :
                    all[i] = Concatenated[FirstIndex(Concatenated, all[i].placeId)]
              /\ \A i, j \in 1..Len(all) :
                    i < j => FirstIndex(Concatenated, all[i].placeId)
                             < FirstIndex(Concatenated, all[j].placeId)

\* C10 as amended: the merged entries are in the order of the first occurrences
\* of their place ids in the concatenation parks, cafes, dog parks, and each
\* entry is the record of the last occurrence of its place id.
C10_FirstPositionLastRecord ==
    poiOutcome.kind = "route"
        => LET all == poiOutcome.value.all
           IN /\ \A i \in 1..Len(all) :
                    all[i] = Concatenated[LastIndex(Concatenated, all[i].placeId)]
              /\ \A i, j \in 1..Len(all) :
                    i < j => FirstIndex(Concatenated, all[i].placeId)
                             < FirstIndex(Concatenated, all[j].placeId)

C10_Witness ==
    /\ poiOutcome.kind = "route"
    /\ Len(Concatenated) = 3
    /\ Concatenated[1].placeId = Concatenated[3].placeId
    /\ Concatenated[1] # Concatenated[3]
    /\ Concatenated[2].placeId # Concatenated[1].placeId
    /\ poiOutcome.value.all = <<Concatenated[3], Concatenated[2]>>

\* ---------------------------------------------------------- ranking order
\* the place has a rating
HasRating(p) == p.rating # NoRating

\* the ranking rule for a place a listed before a place b: when both have a
\* rating and the ratings are more than 0.5 apart the higher rating is first,
\* otherwise the smaller distance is first
InRankingOrder(a, b) ==
    IF HasRating(a) /\ HasRating(b) /\ Abs(a.rating - b.rating) > RatingGap
    THEN a.rating > b.rating
    ELSE a.distanceFromStart <= b.distanceFromStart

\* C11 as claimed: the merged list of findAllDogWalkingPOIs is in ranking
\* order: any two of its places, also two found by different category
\* searches, are listed higher rating first when their ratings are more than
\* 0.5 apart and smaller distance first otherwise.
C11_MergedInRankingOrder ==
    poiOutcome.kind = "route"
        => LET all == poiOutcome.value.all
           IN \A i, j \in 1..Len(all) : i < j => InRankingOrder(all[i], all[j])

\* C12 as claimed: in the result of one findNearbyPOIs, of any two rated
\* places whose ratings are more than 0.5 apart the higher-rated one is listed
\* first, whatever their distances, the length of the list and the order in
\* which the service returned them.
C12_HigherRatingFirst ==
    nearbyOutcome.kind = "route"
        => LET l == nearbyOutcome.value
           IN \A i, j \in 1..Len(l) :
                  (HasRating(l[i]) /\ HasRating(l[j]) /\ l[i].rating - l[j].rating > RatingGap)
                      => i < j

\* C13 as claimed: in the result of one findNearbyPOIs, of any two rated
\* places whose ratings are at most 0.5 apart the one at the smaller distance
\* is listed first, whatever the length of the list and the order in which the
\* service returned them.
C13_CloserFirstWhenRatingsClose ==
    nearbyOutcome.kind = "route"
        => LET l == nearbyOutcome.value
           IN \A i, j \in 1..Len(l) :
                  (/\ HasRating(l[i]) /\ HasRating(l[j])
                   /\ Abs(l[i].rating - l[j].rating) <= RatingGap
                   /\ l[i].distanceFromStart < l[j].distanceFromStart)
                      => i < j

\* C14 as claimed: in the result of one findNearbyPOIs every place with a
\* rating is listed before every place without one, whatever their distances,
\* and the places without a rating are listed by increasing distance.
C14_RatedBeforeUnrated ==
    nearbyOutcome.kind = "route"
        => LET l == nearbyOutcome.value
           IN \A i, j \in 1..Len(l) :
                  /\ (HasRating(l[i]) /\ ~HasRating(l[j])) => i < j
                  /\ (/\ ~HasRating(l[i]) /\ ~HasRating(l[j])
                      /\ l[i].distanceFromStart < l[j].distanceFromStart) => i < j

\* ------------------------------------------------------ getWalkingDirections
\* the running getWalkingDirections has settled after the routing service
\* answered with a body
DirectionsAnswered == dirPc = "done" /\ dirSent = 1 /\ dirResp.fetch = "response" /\ dirResp.httpOk

\* the legs of the route the result is built from
ResultLegs == dirResp.routes[1].legs

RECURSIVE SumSeq(_)
SumSeq(s) == IF s = <<>> THEN 0 ELSE Head(s) + SumSeq(Tail(s))

\* C15 as claimed: getWalkingDirections called with fewer than 2 waypoints
\* fails with the insufficient-waypoints error and sends no request; called
\* with 2 or more it sends exactly one request.
C15_TooFewWaypoints ==
    dirPc # "idle"
        => IF dirWaypoints < 2
           THEN dirPc = "done" /\ dirOutcome = Thrown(ErrWaypoints) /\ dirSent = 0
           ELSE dirSent = 1

\* C15 as amended: called with fewer than 2 waypoints, getWalkingDirections
\* fails without sending a request, with the insufficient-waypoints error
\* when the API key is set and with the missing-key error when it is not;
\* called with 2 or more it sends exactly one request when the key is set and
\* none (failing with the missing-key error) when it is not.
C15_WaypointCheck ==
    dirPc # "idle"
        => IF dirWaypoints < 2
           THEN /\ dirPc = "done"
                /\ dirOutcome = Thrown(IF apiKey THEN ErrWaypoints ELSE ErrNoApiKey)
                /\ dirSent = 0
           ELSE IF apiKey THEN dirSent = 1
           ELSE dirPc = "done" /\ dirOutcome = Thrown(ErrNoApiKey) /\ dirSent = 0

C15_Witness ==
    /\ apiKey
    /\ dirWaypoints = 1
    /\ dirPc = "done"
    /\ dirSent = 0
    /\ dirOutcome = Thrown(ErrWaypoints)

\* C16: getWalkingDirections returns a result only when the routing service
\* answered status OK with at least one route; the statuses ZERO_RESULTS,
\* NOT_FOUND, REQUEST_DENIED and INVALID_REQUEST each end it with a failure of
\* their own, different from the three others; every other status, and an
\* absent or empty route list, ends it with a failure too.
C16_ResultOnlyWhenOk ==
    /\ Cardinality({ErrDirNoRoute, ErrDirNotFound, ErrDirDenied, ErrDirInvalid}) = 4
    /\ dirOutcome.kind = "route"
           => /\ DirectionsAnswered
              /\ dirResp.status = "OK"
              /\ dirResp.hasRoutes /\ Len(dirResp.routes) >= 1
    /\ DirectionsAnswered
           => /\ dirResp.status = "ZERO_RESULTS" => dirOutcome = Thrown(ErrDirNoRoute)
              /\ dirResp.status = "NOT_FOUND" => dirOutcome = Thrown(ErrDirNotFound)
              /\ dirResp.status = "REQUEST_DENIED" => dirOutcome = Thrown(ErrDirDenied)
              /\ dirResp.status = "INVALID_REQUEST" => dirOutcome = Thrown(ErrDirInvalid)
              /\ (dirResp.status # "OK" \/ ~dirResp.hasRoutes \/ dirResp.routes = <<>>)
                     => dirOutcome.kind = "error"

C16_Witness ==
    /\ DirectionsAnswered
    /\ dirResp.status = "NOT_FOUND"
    /\ dirResp.routes = <<AltRoute>>
    /\ dirOutcome = Thrown(ErrDirNotFound)

\* C17: the distance of a returned result is the sum of the distances of all
\* the legs of the route, and its duration the sum of their durations, for
\* any number of legs from 1 up.
C17_TotalsAreSums ==
    dirOutcome.kind = "route"
        => /\ Len(ResultLegs) >= 1
           /\ dirOutcome.value.distance
                  = SumSeq([i \in 1..Len(ResultLegs) |-> ResultLegs[i].distance])
           /\ dirOutcome.value.duration
                  = SumSeq([i \in 1..Len(ResultLegs) |-> ResultLegs[i].duration])

C17_Witness ==
    /\ dirOutcome.kind = "route"
    /\ Len(ResultLegs) = 2
    /\ ResultLegs[1].distance = 100 /\ ResultLegs[2].distance = 250
    /\ dirOutcome.value.distance = 350
    /\ dirOutcome.value.duration = 270

\* the number of steps of the legs before leg i
StepsBefore(i) == SumSeq([j \in 1..(i - 1) |-> Len(ResultLegs[j].steps)])

\* C18: the steps of a returned result are the steps of every leg, leg after
\* leg and in the order they have in their leg; their number is the sum of
\* the legs' step counts.
C18_StepsConcatenated ==
    dirOutcome.kind = "route"
        => /\ Len(dirOutcome.value.steps)
                  = SumSeq([i \in 1..Len(ResultLegs) |-> Len(ResultLegs[i].steps)])
           /\ \A i \in 1..Len(ResultLegs) : \A k \in 1..Len(ResultLegs[i].steps) :
                  dirOutcome.value.steps[StepsBefore(i) + k].instruction
                      = ResultLegs[i].steps[k].html_instructions

C18_Witness ==
    /\ dirOutcome.kind = "route"
    /\ Len(ResultLegs) = 2
    /\ Len(ResultLegs[1].steps) = 1 /\ Len(ResultLegs[2].steps) = 2
    /\ ResultLegs[1].steps[1].html_instructions = "right"
    /\ ResultLegs[2].steps[1].html_instructions = "left"
    /\ Len(dirOutcome.value.steps) = 3

\* ------------------------------------------------------- selector validation
\* the Waypoint Selector of the running action has settled
SelectorSettled == \E i \in 1..Len(returns) : returns[i].stage = "waypointSelector"

\* the proposal is one of those that must be rejected
Malformed(p, circ) ==
    \/ ~p.parses
    \/ \E i \in 1..Len(p.waypoints) : NoCoord \in {p.waypoints[i].lat, p.waypoints[i].lng}
    \/ Len(p.waypoints) < 2
    \/ circ /\ \/ p.waypoints[1].lat # p.waypoints[Len(p.waypoints)].lat
                \/ p.waypoints[1].lng # p.waypoints[Len(p.waypoints)].lng

\* C19: a proposal of the selector's oracle that does not parse, or has a
\* waypoint without a valid latitude or longitude, or has fewer than 2
\* waypoints, or (a circular route being requested) starts and ends at
\* different coordinates, ends the action with MalformedSelectorOutput, and
\* the Route Calculator is never called with it.
C19_MalformedProposalRejected ==
    (SelectorSettled /\ Malformed(proposal, circular))
        => /\ pc = "done"
           /\ outcome = Thrown(ErrMalformed)
           /\ "routeCalculator" \notin StageNames \cap {calls[i] : i \in 1..Len(calls)}

C19_Witness ==
    /\ SelectorSettled
    /\ circular
    /\ proposal.parses
    /\ proposal.waypoints = <<[lat |-> 1, lng |-> 1], [lat |-> 2, lng |-> 1]>>
    /\ outcome = Thrown(ErrMalformed)
    /\ StageCalls = <<"geocoder", "poiAggregator", "waypointSelector">>

\* ------------------------------------------------------ RecommendationsClient
\* the running action has failed a check or a stage
AttemptFailed ==
    \/ envFlag # "true"
    \/ sessionUser = NoUser
    \/ LocationTooShort(location)
    \/ distance < 1 \/ distance > 10
    \/ \E i \in 1..Len(returns) : ~returns[i].res.ok

\* C20: an attempt that fails at a check or at a stage returns no
\* recommendation, and once it has completed the page displays no route, even
\* if it displayed one before; the page displays a route only after an
\* attempt that returned one.
C20_NoRouteAfterFailure ==
    /\ (pc = "done" /\ AttemptFailed) => outcome.kind = "error"
    /\ (pc = "done" /\ outcome.kind = "route")
           => \A i \in 1..Len(Stages) : \E j \in 1..Len(returns) :
                  returns[j].stage = Stages[i] /\ returns[j].res.ok
    /\ toasts # <<>>
           => IF toasts[Len(toasts)] = ToastGenerated
              THEN customRoute = "RouteRecommendation"
              ELSE customRoute = NoRoute
    /\ toasts = <<>> => customRoute = NoRoute

C20_Witness ==
    /\ toasts = <<ToastGenerated, ErrMalformed>>
    /\ customRoute = NoRoute
    /\ ~inflight.given

\* ---------------------------------------------------------------- termination
\* C21 as claimed: every route-generation run that has reached a stage ends,
\* with a result or a failure, also when the service the stage waits for never
\* answers.
C21_RunTerminates == (pc \in StageNames) ~> (pc = "done")

\* the pipeline stages that have settled so far, in order
StagesSettled == [i \in 1..Len(returns) |-> returns[i].stage]

\* C22: a click on Show Me Another starts an attempt with exactly the form data
\* submitted last (location, distance, mustInclude, preferences, circular),
\* the server action runs with these values, it starts with no call made and no
\* stage settled, and a route it returns comes from a run of every stage; an
\* attempt is started by Show Me Another only when form data was submitted.
C22_ShowMeAnotherResubmits ==
    [][/\ (~inflight.given /\ inflight'.given /\ clicked' = "another")
            => (lastFormData.given /\ inflight' = lastFormData /\ lastFormData' = lastFormData)
       /\ (clicked' = "another" /\ pc = "idle" /\ pc' # "idle")
            => /\ location' = lastFormData.location
               /\ distance' = lastFormData.distance
               /\ circular' = lastFormData.circular
               /\ inflight' = lastFormData
               /\ returns' = <<>>
               /\ \A i \in 1..Len(calls') : calls'[i] \notin StageNames
       /\ (clicked' = "another" /\ pc' = "done" /\ outcome'.kind = "route")
            => (StagesSettled' = Stages /\ StageCalls' = Stages)]_vars

\* a second attempt, started by Show Me Another, has returned a route
C22_Witness ==
    /\ clicked = "another"
    /\ Len(toasts) = 1
    /\ pc = "done"
    /\ outcome.kind = "route"
    /\ inflight = lastFormData

\* walk w is on the list that WalksList displays
WalkShown(w) == \E i \in 1..Len(OptimisticWalks) : OptimisticWalks[i] = w

\* C23: from the confirmed click until handleDelete has settled, the walk is
\* not displayed, whatever the server has done so far; when the deletion
\* settles, exactly one toast is raised, for that walk: the success toast after
\* a deletion that succeeded, and the walk stays off the list; the error toast
\* after one that failed, and the walk is displayed again once no deletion is
\* pending. No toast is raised otherwise.
C23_OptimisticDelete ==
    [][/\ \A w \in WalkIds : deletes'[w] # "idle" => ~WalkShown(w)'
       /\ \A w \in WalkIds :
            (deletes[w] # "idle" /\ deletes'[w] = "idle")
                => /\ Len(walkToasts') = Len(walkToasts) + 1
                   /\ walkToasts'[Len(walkToasts')].walk = w
                   /\ deletes[w] = "resolved"
                        => /\ walkToasts'[Len(walkToasts')].text = ToastDeleted
                           /\ ~WalkShown(w)'
                   /\ deletes[w] = "rejected"
                        => /\ walkToasts'[Len(walkToasts')].text = ToastDeleteFailed
                           /\ (PendingDeletes' = {} => WalkShown(w)')
       /\ (walkToasts' # walkToasts)
            => \E w \in WalkIds : deletes[w] # "idle" /\ deletes'[w] = "idle"]_vars

\* a deletion has failed and its walk is displayed again, another has
\* succeeded and its walk is gone
C23_Witness ==
    /\ PendingDeletes = {}
    /\ \E i, j \in 1..Len(walkToasts) :
        /\ walkToasts[i].text = ToastDeleteFailed
        /\ WalkShown(walkToasts[i].walk)
        /\ walkToasts[j].text = ToastDeleted
        /\ ~WalkShown(walkToasts[j].walk)

\* C24: a click on the delete button whose dialog is confirmed calls onDelete
\* once, with the id of the card's walk; a click whose dialog is cancelled
\* calls nothing; nothing else calls onDelete; a card without the prop
\* onDelete has no delete button, so no dialog is ever answered on it.
C24_OnDeleteOncePerConfirm ==
    [][/\ (confirms' # confirms /\ confirms'[Len(confirms')])
            => onDeleteCalls' = Append(onDeleteCalls, cardWalk)
       /\ (confirms' # confirms /\ ~confirms'[Len(confirms')])
            => onDeleteCalls' = onDeleteCalls
       /\ (confirms' = confirms) => onDeleteCalls' = onDeleteCalls
       /\ ~cardOnDelete' => (confirms' = <<>> /\ onDeleteCalls' = <<>>)]_vars

\* a dialog was cancelled and a later one confirmed: onDelete was called once
C24_Witness ==
    /\ cardOnDelete
    /\ Len(confirms) >= 2
    /\ ~confirms[1]
    /\ confirms[Len(confirms)]
    /\ onDeleteCalls = <<cardWalk>>

\* the proxy has answered the request and the request is for a path other
\* than /login and /signup
ProtectedAnswered ==
    /\ proxyPc = "done"
    /\ answers # <<>>
    /\ Matches(request)
    /\ ~IsPublicRoute(request)

\* C25: a request that the proxy has answered, for a path other than /login
\* and /signup, is passed through only if the auth service returned a user; if
\* it returned none or the call threw, the response is a redirect to /login.
C25_ProtectedNeedsUser ==
    ProtectedAnswered
        => /\ response.kind = "next" => answers[Len(answers)] = "user"
           /\ answers[Len(answers)] \in {"none", "throws"} => response = RedirectTo(LoginPath)

\* the auth call threw for a request of a protected page, which was
\* redirected to /login
C25_Witness ==
    /\ ProtectedAnswered
    /\ request = Path(<<"walks", "new">>, "")
    /\ answers[Len(answers)] = "throws"
    /\ response = RedirectTo(LoginPath)

\* the auth service did the same in every proxy run of this navigation
StableAuth == \A i, j \in 1..Len(answers) : answers[i] = answers[j]

\* C26: in a navigation during which the auth service keeps answering the
\* same, a redirect goes to /login when there is no user or the call threw and
\* to /recommendations when there is a user, the request for the redirect's
\* target is passed through, and no second redirect is followed.
C26_NoRedirectLoop ==
    StableAuth
        => /\ hops <= 1
           /\ (hops = 1 /\ proxyPc = "done") => response.kind = "next"
           /\ (proxyPc = "done" /\ response.kind = "redirect")
                => response.path = IF answers[Len(answers)] = "user"
                                   THEN RecommendationsPath
                                   ELSE LoginPath

\* a logged-in visitor asked for a public route, was redirected, and the
\* request for /recommendations was passed through
C26_Witness ==
    /\ answers = <<"user", "user">>
    /\ hops = 1
    /\ proxyPc = "done"
    /\ request = RecommendationsPath
    /\ response = PassedThrough

\* C27 as claimed: every call of saveGeneratedWalkAction passed the route the
\* client held at that moment, and whenever isSaved is true the route the
\* client holds is one that was stored.
C27_SavedIsHeld ==
    /\ \A i \in 1..Len(saveCalls) : saveCalls[i].route = saveCalls[i].held
    /\ isSaved => (customRoute # NoRoute /\ routeNo \in savedRoutes)

\* the saves in progress: the timers of handleSaveWalk that have not fired
\* and the calls of saveGeneratedWalkAction that have not settled
SavesInProgress == Len(wiggleTimers) + Len(savesInFlight)

\* C30: at most one save is in progress at any time; a Save Walk request
\* starts one only while none is in progress and isSaved is false, and a
\* call of saveGeneratedWalkAction is started only by a timer that fires;
\* isSaved is reset only by the submission of a new generation.
\* isWiggling and isSaving say exactly whether a timer or a call is pending.
C30_OneSaveAtATime ==
    [][/\ SavesInProgress' <= 1
       /\ isWiggling' = (wiggleTimers' # <<>>)
       /\ isSaving' = (savesInFlight' # <<>>)
       /\ (Len(wiggleTimers') > Len(wiggleTimers))
            => (~isWiggling /\ ~isSaving /\ ~isSaved /\ SavesInProgress = 0)
       /\ (isSaved /\ ~isSaved') => (~inflight.given /\ inflight'.given)
       /\ (Len(saveCalls') > Len(saveCalls))
            => (Len(wiggleTimers') < Len(wiggleTimers) /\ Len(saveCalls') = Len(saveCalls) + 1)]_vars

\* a second save was started after the first had been stored and a new
\* generation submitted
C30_Witness ==
    /\ Len(saveCalls) = 1
    /\ savedRoutes # {}
    /\ isWiggling
    /\ wiggleTimers # <<>>

\* the list findNearbyPOIs makes of the answer the service gave to category c
ListOf(c) == FindNearbyResult(search[c].resp).value

\* C28: the value findAllDogWalkingPOIs returns is determined by the three
\* answers, each taken by its category, whatever the order in which the
\* searches settled: parks, cafes and dogParks are the lists of their own
\* answers, and the merged list is made of them in that order.
C28_ResultIgnoresSettleOrder ==
    (poiPc = "done" /\ poiOutcome.kind = "route")
        => /\ poiOutcome.value.parks = ListOf("parks")
           /\ poiOutcome.value.cafes = ListOf("cafes")
           /\ poiOutcome.value.dogParks = ListOf("dogParks")
           /\ poiOutcome.value.all
                = UniquePlaces(ListOf("parks") \o ListOf("cafes") \o ListOf("dogParks"))

\* the searches settled in the reverse of the order they were started in, with
\* different lists, and the call returned
C28_Witness ==
    /\ poiPc = "done"
    /\ poiOutcome.kind = "route"
    /\ settleOrder = <<"dogParks", "cafes", "parks">>
    /\ ListOf("parks") # ListOf("dogParks")
    /\ ListOf("parks") # <<>>

\* C29 as claimed: the start address of a returned result is the start
\* address of the first leg of the route, and its end address the end address
\* of the last leg.
C29_EndAddressOfLastLeg ==
    dirOutcome.kind = "route"
        => /\ dirOutcome.value.startAddress = ResultLegs[1].start_address
           /\ dirOutcome.value.endAddress = ResultLegs[Len(ResultLegs)].end_address
====
